---- MODULE Spec2Model ----
(***************************************************************************)
(* Model of krizzu/issue-triage-action: the entry script (option parsing   *)
(* and construction of ActionIssueTriage) and ActionIssueTriage.run with   *)
(* the issue fetcher (_getAllIssues) and the per-issue triage loop.        *)
(*                                                                         *)
(* Time is counted in clock units of half a day; one day is oneDay units.  *)
(* Dates are integers (the run starts at time 0, so an issue last updated  *)
(* a units before the start has updated_at = -a).                          *)
(***************************************************************************)
EXTENDS Integers, Sequences, FiniteSets, TLC

\* ------------------------------------------------------------------ bounds

\* Largest value of the staleAfter / closeAfter inputs that Init draws.
MaxStaleAfter == 2
MaxCloseAfter == 2
\* Largest age (in clock units) of a freely chosen tracker entry.
MaxAge == 4
\* Number of freely chosen tracker entries.
MaxFree == 2
\* Number of full pages of the large repositories Init draws.
MaxPages == 2
\* Number of times the clock may advance during one run.
MaxTicks == 1
\* Longest time (in clock units) from one run to the next.
MaxPeriod == 3
\* Number of changes the listing undergoes while a fetch is under way.
MaxChanges == 1
\* Largest number of pieces of a freely chosen comment template.
MaxTemplateLen == 4
\* Number of times the clock may advance during one run of a sequence of runs.
MaxRunTicks == 2

\* ------------------------------------------------------- program constants

issuesPerPage == 100
staleAfterDefault == 30
closeAfterDefault == 0
staleLabelDefault == "STALE"

\* 24 * 60 * 60 * 1000 ms, in clock units of half a day
oneDay == 2

DAYS_OLD == [kind |-> "tok", text |-> "%DAYS_OLD%", n |-> 0]
AUTHOR == [kind |-> "tok", text |-> "%AUTHOR%", n |-> 0]
Lit(s) == [kind |-> "lit", text |-> s, n |-> 0]
Num(k) == [kind |-> "num", text |-> "", n |-> k]

\* A template is a sequence of literal pieces and tokens.
staleCommentDefault ==
  << Lit(" Beep Boop  \n\nThis issue was last updated "), DAYS_OLD,
     Lit(" days ago! Marking as STALE.\n CC @"), AUTHOR >>
closeCommentDefault ==
  << Lit(" Beep Boop  \n\nThis issue was inactive for "), DAYS_OLD,
     Lit(" days, so closing it down. If you have something to add, please feel free to reopen.\n\nCC @"),
     AUTHOR >>

\* ------------------------------------------------------------ pure helpers

Abs(x) == IF x < 0 THEN -x ELSE x

\* (mutant) the page count rounded down
Floor(a, b) == a \div b

\* Math.ceil(a / b) for a >= 0, b > 0
Ceil(a, b) == (a + b - 1) \div b

\* Math.round(a / b) for a >= 0, b > 0 (halves round up)
Round(a, b) == (2 * a + b) \div (2 * b)

RECURSIVE Flatten(_)
\* data.push(...responseIssue) for each response, in order
Flatten(ss) == IF ss = << >> THEN << >> ELSE Head(ss) \o Flatten(Tail(ss))

Range(s) == { s[i] : i \in 1..Len(s) }

\* core.getInput(name) || dflt : an input is << >> when not supplied, << v >> otherwise
OrDefault(input, dflt) == IF input = << >> THEN dflt ELSE input[1]


\* (mutant) every occurrence is replaced
ReplaceAll(s, tok, by) == [i \in 1..Len(s) |-> IF s[i] = tok THEN by ELSE s[i]]

\* String.prototype.replace(token, by): only the first occurrence is replaced
ReplaceFirst(s, tok, by) ==
  IF \E i \in 1..Len(s) : s[i] = tok
  THEN LET i == CHOOSE j \in 1..Len(s) :
                  s[j] = tok /\ \A k \in 1..(j - 1) : s[k] # tok
       IN  [s EXCEPT ![i] = by]
  ELSE s

\* ------------------------------------------------- entry script (options)

\* Templates a workflow supplies through the staleComment / closeComment inputs
\* (the ones of the README's example).
StaleCustom ==
  << Lit("This issue is "), DAYS_OLD, Lit(" days old, marking as stale! cc: @"), AUTHOR >>
CloseCustom ==
  << Lit("Issue last updated "), DAYS_OLD, Lit(" days ago! Closing down!") >>

\* The options object built from the action's inputs.
Options(in) ==
  [ staleAfter   |-> OrDefault(in.staleAfter, staleAfterDefault),
    closeAfter   |-> OrDefault(in.closeAfter, closeAfterDefault),
    staleComment |-> OrDefault(in.staleComment, staleCommentDefault),
    closeComment |-> OrDefault(in.staleComment, closeCommentDefault),
    staleLabel   |-> OrDefault(in.staleLabel, staleLabelDefault),
    showLogs     |-> OrDefault(in.showLogs, "true") = "true" ]

\* ------------------------------------------------------------------- state

VARIABLES
  inputs,       \* the action's inputs as given by the workflow (<< >>: not supplied)
  opts,         \* this.opts
  dryRun,       \* !!process.env.GH_ACTION_LOCAL_TEST
  repo,         \* the tracker's open listing (issues and pull requests), in listing order
  now,          \* the wall clock (what new Date() reads)
  ticks,        \* how often the clock has advanced during this run
  period,       \* the time from the start of one run to the start of the next
  again,        \* this run follows an earlier run
  touched,      \* the issues the previous run commented on
  changes,      \* how often the listing has changed under a fetch
  pc,           \* position of run()
  totalIssues,  \* repoResponse.open_issues_count once repos.get has returned (-1 before)
  requests,     \* listing requests issued so far, in order (page numbers)
  pending,      \* pages whose listing request is in flight
  pageResult,   \* page -> filtered result of the pages that have arrived
  arrived,      \* the pages whose response has arrived, in order of arrival
  allIssues,    \* what _getAllIssues returned
  staleIssues,  \* the candidates (_filterOldIssues)
  idx,          \* position of the for..of loop in staleIssues
  isClosingDown,\* of the candidate being processed
  decisions,    \* per processed candidate: the clock it was decided at, and the decision
  filterClock,  \* the clock at the time of _filterOldIssues
  markedStale,
  closed,
  calls,        \* write calls that reached the tracker client, in order, with outcome
  log,          \* lines printed (console.log, core.error, core.warning), in order
  raised        \* an error propagated out of run()

vars == << inputs, opts, dryRun, repo, now, ticks, period, again, touched, changes, pc,
           totalIssues, requests, pending, pageResult, arrived, allIssues, staleIssues, idx, isClosingDown, decisions,
           filterClock, markedStale, closed, calls, log, raised >>

\* ------------------------------------------------ ActionIssueTriage helpers

IsIssue(issue) == ~issue.pull_request

\* (mutant) an issue exactly `days` old counts as older
IsOlderThanInclusive(date, days, clock) ==
  LET expirationDate == clock - days * oneDay
  IN  date <= expirationDate

IsOlderThan(date, days, clock) ==
  LET expirationDate == clock - days * oneDay
  IN  date < expirationDate

GetDaysSince(dayCreated, clock) == Round(Abs(clock - dayCreated), oneDay)

\* (mutant) no staleness filter: every fetched issue is a candidate
FilterOldIssuesAll(issues, clock) == issues

FilterOldIssues(issues, clock) ==
  SelectSeq(issues, LAMBDA issue : IsOlderThan(issue.updated_at, opts.staleAfter, clock))

GenerateMessage(issue, messageTemplate, clock) ==
  LET message == ReplaceFirst(messageTemplate, DAYS_OLD,
                              Num(GetDaysSince(issue.updated_at, clock)))
  IN  ReplaceFirst(message, AUTHOR, Lit(issue.user))

\* (mutant) closing without requiring closeAfter > staleAfter
ClosingDownNoGuard(issue, clock) ==
  IsOlderThan(issue.updated_at, opts.closeAfter, clock)

\* run, lines 41-46
ClosingDown(issue, clock) ==
  /\ opts.closeAfter > opts.staleAfter
  /\ IsOlderThan(issue.updated_at, opts.closeAfter, clock)

\* run, lines 48-51
CommentTemplate(closing) == IF closing THEN opts.closeComment ELSE opts.staleComment

\* (mutant) the stale label is sent with the closing update as well
UpdateParamsLabelled(issue, closeIssue) ==
  [op |-> "update", issue_number |-> issue.number,
   state |-> IF closeIssue THEN "closed" ELSE "",
   labels |-> issue.labels \o << opts.staleLabel >>,
   hasState |-> closeIssue, hasLabels |-> TRUE, body |-> << >>]

\* _updateIssue, lines 191-201
UpdateParams(issue, closeIssue) ==
  IF closeIssue
  THEN [op |-> "update", issue_number |-> issue.number, state |-> "closed", labels |-> << >>,
        hasState |-> TRUE, hasLabels |-> FALSE, body |-> << >>]
  ELSE [op |-> "update", issue_number |-> issue.number, state |-> "",
        labels |-> issue.labels \o << opts.staleLabel >>,
        hasState |-> FALSE, hasLabels |-> TRUE, body |-> << >>]

\* _postComment, lines 170-175
CommentParams(issue, message) ==
  [op |-> "createComment", issue_number |-> issue.number, state |-> "", labels |-> << >>,
   hasState |-> FALSE, hasLabels |-> FALSE, body |-> message]


\* _log: console.log unless showLogs is off
LogLines(message, n) ==
  IF opts.showLogs THEN << [level |-> "log", msg |-> message, n |-> n] >> ELSE << >>

\* core.error / core.warning
CoreLine(level, message, n) == << [level |-> level, msg |-> message, n |-> n] >>

\* (mutant) the loop body without its try/catch
NotCaught(line) == FALSE

\* the try block of the for..of body (lines 38-66) and the throw statements it holds
Caught(line) == 38 <= line /\ line <= 66

\* ------------------------------------------------------------- the tracker

Min(a, b) == IF a < b THEN a ELSE b

\* issues.listForRepo({state: 'open', per_page, page}): the page-th slice of the listing
ListForRepo(page, per_page) ==
  SubSeq(repo, (page - 1) * per_page + 1, Min(page * per_page, Len(repo)))

\* repos.get: open_issues_count counts issues and pull requests
OpenIssuesCount == Len(repo)

\* ------------------------------------------------------------ initial state

Filler(k) ==
  [number |-> k, pull_request |-> (k % 2 = 0), updated_at |-> 0,
   user |-> "carol", labels |-> << >>]

FreeEntry(k, f) ==
  [number |-> k, pull_request |-> f.pr, updated_at |-> 0 - f.age,
   user |-> IF k % 2 = 0 THEN "alice" ELSE "bob",
   labels |-> IF k % 2 = 0 THEN << staleLabelDefault >> ELSE << >>]

\* a listing of n entries whose last Len(free) entries are the freely chosen ones
Listing(n, free) ==
  [k \in 1..n |-> IF k <= n - Len(free) THEN Filler(k)
                  ELSE FreeEntry(k, free[k - (n - Len(free))])]

FreeChoices == [pr : BOOLEAN, age : 0..MaxAge]

\* the listing is sorted by last update, most recent first (sort: 'updated', direction: 'desc')
FreeSeqs(m) ==
  { f \in [1..m -> FreeChoices] : \A i \in 1..m : \A j \in i..m : f[i].age <= f[j].age }

\* the same, issues only
IssueSeqs(m) == { f \in FreeSeqs(m) : \A i \in 1..m : ~f[i].pr }

\* sizes around the page boundaries: 0, 1, 99, 100, 101, 199, ...
PageSizes ==
  { n \in 0..(MaxPages * issuesPerPage + 1) :
      n % issuesPerPage \in {0, 1, issuesPerPage - 1} }

\* the first run is about to start
InitFirstRun ==
  /\ opts = Options(inputs)
  /\ now = 0
  /\ ticks = 0
  /\ again = FALSE
  /\ touched = {}
  /\ changes = 0
  /\ pc = "start"
  /\ totalIssues = -1
  /\ requests = << >>
  /\ pending = {}
  /\ pageResult = << >>
  /\ arrived = << >>
  /\ allIssues = << >>
  /\ staleIssues = << >>
  /\ idx = 0
  /\ isClosingDown = FALSE
  /\ decisions = << >>
  /\ filterClock = 0
  /\ markedStale = 0
  /\ closed = 0
  /\ calls = << >>
  /\ log = << >>
  /\ raised = FALSE

\* a single run: no next run is scheduled
InitRun ==
  /\ period = 0
  /\ InitFirstRun

\* small repositories of issues, every choice of the two thresholds
InitTriage ==
  /\ inputs \in [ staleAfter   : { << v >> : v \in 1..MaxStaleAfter },
                  closeAfter   : { << >> } \cup { << v >> : v \in 0..MaxCloseAfter },
                  staleComment : { << >> },
                  closeComment : { << >> },
                  staleLabel   : { << >> },
                  showLogs     : { << >> } ]
  /\ dryRun \in BOOLEAN
  /\ \E m \in 0..MaxFree : \E free \in IssueSeqs(m) : repo = Listing(m, free)
  /\ InitRun

\* repositories of at most one issue, every choice of the comment templates and of showLogs
InitOptions ==
  /\ inputs \in [ staleAfter   : { << 1 >> },
                  closeAfter   : { << 2 >> },
                  staleComment : { << >>, << StaleCustom >> },
                  closeComment : { << >>, << CloseCustom >> },
                  staleLabel   : { << >> },
                  showLogs     : { << >>, << "false" >> } ]
  /\ dryRun \in BOOLEAN
  /\ \E m \in 0..1 : \E free \in IssueSeqs(m) : repo = Listing(m, free)
  /\ InitRun

\* repositories of issues and pull requests, of no, one and several pages
InitPaging ==
  /\ inputs \in [ staleAfter   : { << 1 >> },
                  closeAfter   : { << >>, << 2 >> },
                  staleComment : { << >> },
                  closeComment : { << >> },
                  staleLabel   : { << >> },
                  showLogs     : { << >> } ]
  /\ dryRun = FALSE
  /\ \E n \in PageSizes : \E free \in FreeSeqs(Min(n, 1)) : repo = Listing(n, free)
  /\ InitRun

\* the scenario of the specification: issues updated 10, 40 and 70 days ago
InitScenario ==
  /\ inputs = [ staleAfter |-> << 30 >>, closeAfter |-> << 60 >>,
                staleComment |-> << >>, closeComment |-> << >>,
                staleLabel |-> << >>, showLogs |-> << >> ]
  /\ dryRun = FALSE
  /\ repo = << [number |-> 1, pull_request |-> FALSE, updated_at |-> 0 - 10 * oneDay,
                user |-> "carol", labels |-> << >>],
               [number |-> 2, pull_request |-> FALSE, updated_at |-> 0 - 40 * oneDay,
                user |-> "alice", labels |-> << >>],
               [number |-> 3, pull_request |-> FALSE, updated_at |-> 0 - 70 * oneDay,
                user |-> "bob", labels |-> << >>] >>
  /\ InitRun

\* the templates of up to MaxTemplateLen pieces: literals and tokens in any order, a
\* token possibly several times
Pieces == { Lit("-"), DAYS_OLD, AUTHOR }
Templates == UNION { [1..len -> Pieces] : len \in 1..MaxTemplateLen }

\* one issue of every age, every template as the staleComment input
InitTemplates ==
  /\ inputs \in [ staleAfter   : { << 1 >> },
                  closeAfter   : { << 2 >> },
                  staleComment : { << t >> : t \in Templates },
                  closeComment : { << >> },
                  staleLabel   : { << >> },
                  showLogs     : { << >> } ]
  /\ dryRun = FALSE
  /\ \E free \in IssueSeqs(1) : repo = Listing(1, free)
  /\ InitRun

Init == InitTriage \/ InitOptions \/ InitPaging \/ InitScenario


\* ------------------------------------------------------------ _getAllIssues

fetchVars == << totalIssues, requests, pending, pageResult, arrived, allIssues >>
triageVars == << staleIssues, idx, isClosingDown, decisions, filterClock,
                 markedStale, closed, calls >>
envVars == << inputs, opts, dryRun, repo, now, ticks, period, again, touched, changes >>

\* getIssuesForPage(page): what the page's promise resolves to
GetIssuesForPage(page) ==
  SelectSeq(ListForRepo(page, issuesPerPage), IsIssue)

\* run is called; _getAllIssues issues repos.get and awaits it
RunStart ==
  /\ pc = "start"
  /\ pc' = "awaitRepo"
  /\ UNCHANGED << envVars, fetchVars, triageVars, log, raised >>

\* the pages the for loop of lines 147-149 requests, in order
PagesToRequest(pageCount) == [i \in 1..pageCount |-> i]

\* repos.get returns: every page request is issued, then Promise.all is awaited
ReposGetReturns ==
  /\ pc = "awaitRepo"
  /\ totalIssues' = OpenIssuesCount
  /\ LET pageCount == Ceil(totalIssues', issuesPerPage)
     IN  /\ requests' = PagesToRequest(pageCount)
         /\ pending' = Range(PagesToRequest(pageCount))
  /\ pc' = "awaitPages"
  /\ UNCHANGED << envVars, pageResult, arrived, allIssues, triageVars, log, raised >>

\* repos.get fails: the catch of line 160 logs and returns []
ReposGetFails ==
  /\ pc = "awaitRepo"
  /\ log' = log \o CoreLine("error", "Error while fetching issues", 0)
  /\ allIssues' = << >>
  /\ pc' = "fetched"
  /\ UNCHANGED << envVars, totalIssues, requests, pending, pageResult, arrived, triageVars, raised >>

\* a page's listing request returns
PageReturns(page) ==
  /\ page \in pending
  /\ pending' = pending \ {page}
  /\ arrived' = Append(arrived, page)
  /\ pageResult' = [q \in DOMAIN pageResult \cup {page} |->
                      IF q = page THEN GetIssuesForPage(page) ELSE pageResult[q]]
  /\ UNCHANGED << envVars, pc, totalIssues, requests, allIssues, triageVars, log, raised >>

\* (mutant) the failure is caught per page: logged, and the page counts as empty
PageFailsSkipped(page) ==
  /\ page \in pending
  /\ pending' = pending \ {page}
  /\ log' = log \o CoreLine("error", "Error while fetching issues", 0)
  /\ arrived' = Append(arrived, page)
  /\ pageResult' = [q \in DOMAIN pageResult \cup {page} |->
                      IF q = page THEN << >> ELSE pageResult[q]]
  /\ UNCHANGED << envVars, pc, totalIssues, requests, allIssues, triageVars, raised >>

\* a page's listing request fails: Promise.all rejects with the first failure, the
\* catch of line 160 logs and returns []; later failures are swallowed
PageFails(page) ==
  /\ page \in pending
  /\ pending' = pending \ {page}
  /\ arrived' = Append(arrived, page)
  /\ IF pc = "awaitPages"
     THEN /\ log' = log \o CoreLine("error", "Error while fetching issues", 0)
          /\ allIssues' = << >>
          /\ pc' = "fetched"
     ELSE UNCHANGED << log, allIssues, pc >>
  /\ UNCHANGED << envVars, totalIssues, requests, pageResult, triageVars, raised >>

\* (mutant) the pages' results are concatenated as they arrive
JoinOrderOfArrival == arrived

\* the order in which Promise.all hands the pages' results to the concatenation
JoinOrder == requests

\* every page has arrived: Promise.all resolves and the results are concatenated
JoinPages ==
  /\ pc = "awaitPages"
  /\ pending = {}
  /\ allIssues' = Flatten([i \in 1..Len(JoinOrder) |-> pageResult[JoinOrder[i]]])
  /\ pc' = "fetched"
  /\ UNCHANGED << envVars, totalIssues, requests, pending, pageResult, arrived, triageVars, log, raised >>

\* ---------------------------------------------------------------------- run

\* lines 21-26: nothing fetched
NoIssues ==
  /\ pc = "fetched"
  /\ allIssues = << >>
  /\ log' = log \o LogLines("No issues found", 0)
  /\ pc' = "done"
  /\ UNCHANGED << envVars, fetchVars, triageVars, raised >>

\* lines 28-35
StartTriage ==
  /\ pc = "fetched"
  /\ allIssues # << >>
  /\ log' = log \o LogLines("Total issues", Len(allIssues))
  /\ staleIssues' = FilterOldIssues(allIssues, now)
  /\ filterClock' = now
  /\ markedStale' = 0
  /\ closed' = 0
  /\ idx' = 1
  /\ pc' = "loop"
  /\ UNCHANGED << envVars, fetchVars, isClosingDown, decisions, calls, raised >>

\* (mutant) the error is caught around the whole loop: the remaining candidates are skipped
ThrowBreaks(line, lines) ==
  /\ log' = log \o lines \o CoreLine("warning", "Could not process issue", line)
  /\ idx' = Len(staleIssues) + 1
  /\ pc' = "loop"
  /\ raised' = raised

\* a throw statement at `line` of run: caught by the per-issue try, or propagated
Throw(line, lines) ==
  IF Caught(line)
  THEN /\ log' = log \o lines \o CoreLine("warning", "Could not process issue", line)
       /\ idx' = idx + 1
       /\ pc' = "loop"
       /\ raised' = raised
  ELSE /\ log' = log \o lines
       /\ idx' = idx
       /\ pc' = "done"
       /\ raised' = TRUE

\* (mutant) the two counters exchanged
CountSwapped(closing) ==
  /\ closed' = IF closing THEN closed ELSE closed + 1
  /\ markedStale' = IF closing THEN markedStale + 1 ELSE markedStale

\* lines 54-59
Count(closing) ==
  /\ closed' = IF closing THEN closed + 1 ELSE closed
  /\ markedStale' = IF closing THEN markedStale ELSE markedStale + 1

\* (mutant) the local-test indicator is not consulted
ReachesAlways == TRUE

\* whether a write call is handed to the tracker client (lines 177, 204)
Reaches == ~dryRun

\* a write call handed to the tracker client: in flight, with the time it was sent
IssueCall(params) == Append(calls, [p |-> params, result |-> "pending", at |-> now])

\* the call in flight is answered
Complete(result) == [calls EXCEPT ![Len(calls)].result = result]

\* (mutant) the comment is posted without awaiting it: the loop moves on at once
NextIssueNotAwaited ==
  /\ pc = "loop"
  /\ idx <= Len(staleIssues)
  /\ LET issue == staleIssues[idx]
         closing == ClosingDown(issue, now)
         message == GenerateMessage(issue, CommentTemplate(closing), now)
     IN  /\ isClosingDown' = closing
         /\ decisions' = Append(decisions,
                                [number |-> issue.number, clock |-> now, closing |-> closing])
         /\ calls' = IF Reaches THEN IssueCall(CommentParams(issue, message)) ELSE calls
         /\ Count(closing)
         /\ idx' = idx + 1
         /\ pc' = pc
  /\ UNCHANGED << envVars, fetchVars, staleIssues, filterClock, log, raised >>

\* lines 37-51: the next candidate is decided and its comment is posted
NextIssue ==
  /\ pc = "loop"
  /\ idx <= Len(staleIssues)
  /\ LET issue == staleIssues[idx]
         closing == ClosingDown(issue, now)
         message == GenerateMessage(issue, CommentTemplate(closing), now)
     IN  /\ isClosingDown' = closing
         /\ decisions' = Append(decisions,
                                [number |-> issue.number, clock |-> now, closing |-> closing])
         /\ IF Reaches
            THEN /\ calls' = IssueCall(CommentParams(issue, message))
                 /\ pc' = "awaitComment"
                 /\ UNCHANGED << idx, markedStale, closed >>
            ELSE \* neither call is made: both report success
                 /\ Count(closing)
                 /\ idx' = idx + 1
                 /\ UNCHANGED << calls, pc >>
  /\ UNCHANGED << envVars, fetchVars, staleIssues, filterClock, log, raised >>

\* createComment returns: _postComment is true, _updateIssue issues the update
CommentReturns ==
  /\ pc = "awaitComment"
  /\ calls' = Append(Complete("ok"), [p |-> UpdateParams(staleIssues[idx], isClosingDown),
                                      result |-> "pending", at |-> now])
  /\ pc' = "awaitUpdate"
  /\ UNCHANGED << envVars, fetchVars, staleIssues, idx, isClosingDown, decisions,
                  filterClock, markedStale, closed, log, raised >>

\* (mutant) _postComment reports success although createComment failed
CommentFailsReturnsTrue ==
  /\ pc = "awaitComment"
  /\ calls' = Append(Complete("failed"), [p |-> UpdateParams(staleIssues[idx], isClosingDown),
                                          result |-> "pending", at |-> now])
  /\ log' = log \o CoreLine("error", "Could not post a comment in issue", staleIssues[idx].number)
  /\ pc' = "awaitUpdate"
  /\ UNCHANGED << envVars, fetchVars, staleIssues, idx, isClosingDown, decisions,
                  filterClock, markedStale, closed, raised >>

\* createComment fails: _postComment logs and is false, run throws at line 64
CommentFails ==
  /\ pc = "awaitComment"
  /\ calls' = Complete("failed")
  /\ Throw(64, CoreLine("error", "Could not post a comment in issue", staleIssues[idx].number))
  /\ UNCHANGED << envVars, fetchVars, staleIssues, isClosingDown, decisions,
                  filterClock, markedStale, closed >>

\* update returns: the issue is counted
UpdateReturns ==
  /\ pc = "awaitUpdate"
  /\ calls' = Complete("ok")
  /\ Count(isClosingDown)
  /\ idx' = idx + 1
  /\ pc' = "loop"
  /\ UNCHANGED << envVars, fetchVars, staleIssues, isClosingDown, decisions,
                  filterClock, log, raised >>

\* (mutant) a failed update is tried again
UpdateFailsRetried ==
  /\ pc = "awaitUpdate"
  /\ calls' = Append(Complete("failed"), [p |-> UpdateParams(staleIssues[idx], isClosingDown),
                                          result |-> "pending", at |-> now])
  /\ log' = log \o CoreLine("error",
                            IF isClosingDown THEN "Could not close issue" ELSE "Could not update issue",
                            staleIssues[idx].number)
  /\ UNCHANGED << envVars, fetchVars, staleIssues, idx, isClosingDown, decisions,
                  filterClock, markedStale, closed, pc, raised >>

\* (mutant) the issue is counted although its update failed
UpdateFailsCounted ==
  /\ pc = "awaitUpdate"
  /\ calls' = Complete("failed")
  /\ Count(isClosingDown)
  /\ Throw(61, CoreLine("error",
                        IF isClosingDown THEN "Could not close issue" ELSE "Could not update issue",
                        staleIssues[idx].number))
  /\ UNCHANGED << envVars, fetchVars, staleIssues, isClosingDown, decisions, filterClock >>

\* update fails: _updateIssue logs and is false, run throws at line 61
UpdateFails ==
  /\ pc = "awaitUpdate"
  /\ calls' = Complete("failed")
  /\ Throw(61, CoreLine("error",
                        IF isClosingDown THEN "Could not close issue" ELSE "Could not update issue",
                        staleIssues[idx].number))
  /\ UNCHANGED << envVars, fetchVars, staleIssues, isClosingDown, decisions,
                  filterClock, markedStale, closed >>

\* lines 71-80: the loop is over, the outcome is logged and run returns
Finish ==
  /\ pc = "loop"
  /\ idx > Len(staleIssues)
  /\ log' = log
            \o (IF markedStale # 0 THEN LogLines("Issues marked as stale", markedStale) ELSE << >>)
            \o (IF closed # 0 THEN LogLines("Issues closed down", closed) ELSE << >>)
            \o (IF markedStale = 0 /\ closed = 0 THEN LogLines("No old issues found", 0) ELSE << >>)
  /\ pc' = "done"
  /\ UNCHANGED << envVars, fetchVars, triageVars, raised >>

\* time passes while the run is under way, at most `limit` times
TickUpTo(limit) ==
  /\ pc # "done"
  /\ ticks < limit
  /\ now' = now + 1
  /\ ticks' = ticks + 1
  /\ UNCHANGED << inputs, opts, dryRun, repo, period, again, touched, changes, pc,
                  fetchVars, triageVars, log, raised >>

Tick == TickUpTo(MaxTicks)

Next ==
  \/ RunStart
  \/ ReposGetReturns
  \/ ReposGetFails
  \/ \E page \in pending : PageReturns(page)
  \/ \E page \in pending : PageFails(page)
  \/ JoinPages
  \/ NoIssues
  \/ StartTriage
  \/ NextIssue
  \/ CommentReturns
  \/ CommentFails
  \/ UpdateReturns
  \/ UpdateFails
  \/ Finish
  \/ Tick

Spec == Init /\ [][Next]_vars

\* the steps run takes by itself, and the tracker's answers to the calls in flight
ProgramStep ==
  RunStart \/ JoinPages \/ NoIssues \/ StartTriage \/ NextIssue \/ Finish
TrackerResponds ==
  \/ ReposGetReturns \/ ReposGetFails
  \/ \E page \in pending : PageReturns(page) \/ PageFails(page)
  \/ CommentReturns \/ CommentFails
  \/ UpdateReturns \/ UpdateFails

\* the run is scheduled, and every tracker call eventually returns or fails
FairSpec == Spec /\ WF_vars(ProgramStep) /\ WF_vars(TrackerResponds)


\* ----------------------------------------------------- properties: helpers

Done == pc = "done"

Comments == { j \in 1..Len(calls) : calls[j].p.op = "createComment" }
Updates == { j \in 1..Len(calls) : calls[j].p.op = "update" }
CallsFor(n) == { j \in 1..Len(calls) : calls[j].p.issue_number = n }
AllCallsOk == \A j \in 1..Len(calls) : calls[j].result = "ok"

\* the candidate a decision was taken for, and the age it had at that time
DecisionOf(n) == decisions[CHOOSE k \in 1..Len(decisions) : decisions[k].number = n]
FetchedIssue(n) == allIssues[CHOOSE k \in 1..Len(allIssues) : allIssues[k].number = n]
AgeAtFilter(issue) == filterClock - issue.updated_at
AgeAtDecision(k) == decisions[k].clock - staleIssues[k].updated_at

\* ---------------------------------------------------------------------- C1

(* C1: an issue fetched in this run whose age at the staleness filter is at most
   staleAfter days (exactly staleAfter days included) is never the target of a
   createComment or update call, whatever else the run does. *)
C1_FreshIssuesUntouched ==
  \A k \in 1..Len(allIssues) :
    AgeAtFilter(allIssues[k]) <= opts.staleAfter * oneDay
      => CallsFor(allIssues[k].number) = {}

\* a finished run that fetched an issue exactly staleAfter days old and whose calls
\* for another issue partly failed
C1_Witness ==
  /\ Done
  /\ \E k \in 1..Len(allIssues) :
       /\ AgeAtFilter(allIssues[k]) = opts.staleAfter * oneDay
       /\ CallsFor(allIssues[k].number) = {}
  /\ \E j \in 1..Len(calls) : calls[j].result = "failed"
  /\ \E j \in 1..Len(calls) : calls[j].result = "ok"

\* ---------------------------------------------------------------------- C2

(* C2: when closeAfter <= staleAfter (closeAfter 0, the default, included) no
   update with state 'closed' is issued, the closed counter stays 0 and every
   candidate is handled as stale: its comment is rendered from the stale
   template and its update sends the labels. *)
C2_NoClosingUnlessCloseAfterExceeds ==
  opts.closeAfter <= opts.staleAfter =>
    /\ closed = 0
    /\ \A k \in 1..Len(decisions) : ~decisions[k].closing
    /\ \A j \in Updates :
         /\ ~calls[j].p.hasState
         /\ calls[j].p.state # "closed"
         /\ calls[j].p.hasLabels
    /\ \A j \in Comments :
         LET n == calls[j].p.issue_number
         IN  calls[j].p.body =
               GenerateMessage(FetchedIssue(n), opts.staleComment, DecisionOf(n).clock)

\* closeAfter left at its default and an issue older than every closeAfter Init draws
\* was marked stale
C2_Witness ==
  /\ Done
  /\ inputs.closeAfter = << >>
  /\ markedStale >= 1
  /\ \E k \in 1..Len(staleIssues) : AgeAtDecision(k) > MaxCloseAfter * oneDay
  /\ \E j \in Updates : calls[j].p.hasLabels /\ calls[j].result = "ok"

\* ---------------------------------------------------------------------- C3

ClosingExpected(k) == AgeAtDecision(k) > opts.closeAfter * oneDay

(* C3: with closeAfter > staleAfter and every tracker call succeeding, a finished
   live run has, for each candidate in order, the comment and then the update:
   a candidate older than closeAfter days gets the close comment and an update
   to state closed and counts toward closed; a candidate older than staleAfter
   but not older than closeAfter gets the stale comment and a label update and
   counts toward markedStale.  With issues 10, 40 and 70 days old, staleAfter 30
   and closeAfter 60: the first is untouched, the second marked stale, the
   third closed, markedStale = 1, closed = 1. *)
C3_StaleOrClosedByAge ==
  (Done /\ ~dryRun /\ allIssues # << >> /\ AllCallsOk /\ opts.closeAfter > opts.staleAfter) =>
    /\ \A k \in 1..Len(allIssues) :
         (\E c \in 1..Len(staleIssues) : staleIssues[c] = allIssues[k])
           <=> AgeAtFilter(allIssues[k]) > opts.staleAfter * oneDay
    /\ Len(decisions) = Len(staleIssues)
    /\ Len(calls) = 2 * Len(staleIssues)
    /\ \A k \in 1..Len(staleIssues) :
         LET issue == staleIssues[k]
             comment == calls[2 * k - 1].p
             update == calls[2 * k].p
         IN  /\ comment.op = "createComment" /\ comment.issue_number = issue.number
             /\ update.op = "update" /\ update.issue_number = issue.number
             /\ IF ClosingExpected(k)
                THEN /\ comment.body = GenerateMessage(issue, opts.closeComment, decisions[k].clock)
                     /\ update.hasState /\ update.state = "closed" /\ ~update.hasLabels
                ELSE /\ comment.body = GenerateMessage(issue, opts.staleComment, decisions[k].clock)
                     /\ update.hasLabels /\ ~update.hasState
                     /\ update.labels = issue.labels \o << opts.staleLabel >>
    /\ closed = Cardinality({ k \in 1..Len(staleIssues) : ClosingExpected(k) })
    /\ markedStale = Cardinality({ k \in 1..Len(staleIssues) : ~ClosingExpected(k) })
    /\ (opts.staleAfter = 30 /\ opts.closeAfter = 60) =>
         /\ CallsFor(1) = {}
         /\ calls[2].p.issue_number = 2 /\ calls[2].p.hasLabels
         /\ calls[4].p.issue_number = 3 /\ calls[4].p.state = "closed"
         /\ markedStale = 1 /\ closed = 1

\* the scenario, finished with every call successful
C3_Witness ==
  /\ Done
  /\ opts.staleAfter = 30 /\ opts.closeAfter = 60
  /\ Len(allIssues) = 3
  /\ Len(calls) = 4 /\ AllCallsOk
  /\ markedStale = 1 /\ closed = 1


\* ---------------------------------------------------------------------- C4

Failed(n) == \E j \in CallsFor(n) : calls[j].result = "failed"
CallsSucceed(n) == \A j \in CallsFor(n) : calls[j].result = "ok"
CommentedOk(n) == \E j \in CallsFor(n) \cap Comments : calls[j].result = "ok"
TransitionedOk(n) == \E j \in CallsFor(n) \cap Updates : calls[j].result = "ok"

(* C4: a finished live run has not raised and has attempted every candidate;
   for two candidates A and B, in either order, if a call of A failed and the
   calls of B succeed then B got its comment and its transition; the counters
   count exactly the candidates whose comment and update both succeeded, so B
   is counted and A is counted in neither. *)
C4_FailureIsolation ==
  (Done /\ ~dryRun) =>
    /\ ~raised
    /\ \A k \in 1..Len(staleIssues) : CallsFor(staleIssues[k].number) \cap Comments # {}
    /\ \A a, b \in 1..Len(staleIssues) :
         (a # b /\ Failed(staleIssues[a].number) /\ CallsSucceed(staleIssues[b].number))
           => CommentedOk(staleIssues[b].number) /\ TransitionedOk(staleIssues[b].number)
    /\ closed = Cardinality({ k \in 1..Len(staleIssues) :
                  /\ decisions[k].closing
                  /\ CommentedOk(staleIssues[k].number)
                  /\ TransitionedOk(staleIssues[k].number) })
    /\ markedStale = Cardinality({ k \in 1..Len(staleIssues) :
                  /\ ~decisions[k].closing
                  /\ CommentedOk(staleIssues[k].number)
                  /\ TransitionedOk(staleIssues[k].number) })

\* the first candidate's comment failed, the second candidate went through and is the
\* only one counted
C4_Witness ==
  /\ Done /\ ~dryRun /\ ~raised
  /\ Len(staleIssues) = 2
  /\ calls[1].p.issue_number = staleIssues[1].number /\ calls[1].result = "failed"
  /\ CommentedOk(staleIssues[2].number) /\ TransitionedOk(staleIssues[2].number)
  /\ markedStale + closed = 1

\* ---------------------------------------------------------------------- C5

(* C5: an update call is issued only right after the createComment call of the
   same issue has returned successfully; an issue whose createComment failed
   gets no update call and is counted in neither counter (in a live run the
   counters count the successful updates). *)
C5_UpdateOnlyAfterComment ==
  /\ \A j \in Updates :
       /\ j > 1
       /\ calls[j - 1].p.op = "createComment"
       /\ calls[j - 1].p.issue_number = calls[j].p.issue_number
       /\ calls[j - 1].result = "ok"
  /\ \A j \in Comments :
       calls[j].result = "failed" => CallsFor(calls[j].p.issue_number) \cap Updates = {}
  /\ ~dryRun =>
       /\ closed = Cardinality({ j \in Updates : calls[j].result = "ok" /\ calls[j].p.hasState })
       /\ markedStale = Cardinality({ j \in Updates : calls[j].result = "ok" /\ calls[j].p.hasLabels })

\* one issue's comment failed, another issue's comment succeeded and its update followed
C5_Witness ==
  /\ Done
  /\ \E j \in Comments : calls[j].result = "failed"
  /\ \E j \in Updates : calls[j].result = "ok" /\ calls[j - 1].result = "ok"
  /\ markedStale + closed = 1


\* ---------------------------------------------------------------------- C6

\* the decision for candidate k as its age and the thresholds give it
DecisionExpected(k) == opts.closeAfter > opts.staleAfter /\ ClosingExpected(k)

\* candidates, decisions and counters as the fetched issues, the configuration and the
\* clock readings give them when nothing fails
OutcomeByAge ==
  /\ staleIssues = SelectSeq(allIssues,
                             LAMBDA i : AgeAtFilter(i) > opts.staleAfter * oneDay)
  /\ Len(decisions) = Len(staleIssues)
  /\ \A k \in 1..Len(staleIssues) : decisions[k].closing = DecisionExpected(k)
  /\ closed = Cardinality({ k \in 1..Len(staleIssues) : DecisionExpected(k) })
  /\ markedStale = Cardinality({ k \in 1..Len(staleIssues) : ~DecisionExpected(k) })

(* C6 (amended): in a dry run no createComment and no update call reaches the
   tracker client; its candidates, decisions and final counters are those that
   the fetched issues, the configuration and the clock readings determine, which
   are also those of a live run in which every tracker call succeeds. *)
C6_DryRunMatchesSuccessfulLiveRun ==
  /\ dryRun => calls = << >>
  /\ (Done /\ allIssues # << >> /\ (dryRun \/ AllCallsOk)) => OutcomeByAge

(* C6 (as stated): the dry run's candidates, decisions and final counters are
   those of a live run on the same fetched issues and configuration, that is,
   every finished run, live or dry, ends with the outcome the issues and the
   configuration determine. *)
C6_DryRunMatchesEveryLiveRun ==
  /\ dryRun => calls = << >>
  /\ (Done /\ allIssues # << >>) => OutcomeByAge

\* a finished dry run that counted an issue as stale and another as closed
C6_Witness ==
  /\ Done /\ dryRun
  /\ calls = << >>
  /\ markedStale >= 1 /\ closed >= 1

\* ---------------------------------------------------------------------- C7

FetchReturned == pc \notin {"start", "awaitRepo", "awaitPages"}
MetadataFailed == FetchReturned /\ totalIssues < 0
PageFailed ==
  \E i \in 1..Len(requests) : requests[i] \notin pending /\ requests[i] \notin DOMAIN pageResult
FetchErrorLogged ==
  \E i \in 1..Len(log) : log[i].level = "error" /\ log[i].msg = "Error while fetching issues"
FetchFailure == MetadataFailed \/ PageFailed \/ FetchErrorLogged

PageCountFor(n) == IF n % issuesPerPage = 0 THEN n \div issuesPerPage ELSE n \div issuesPerPage + 1

(* C7: once the metadata has reported N open issues, the listing requests issued
   are exactly those for pages 1..ceiling(N/100), one each; when no request
   failed the fetcher returns every entry that is not a pull request exactly
   once and nothing else (N minus the pull requests, none twice, none
   dropped); for N = 0 no listing request is issued and the empty sequence is
   returned. *)
C7_PaginationRoundTrip ==
  /\ totalIssues < 0 => requests = << >>
  /\ totalIssues >= 0 =>
       /\ totalIssues = Len(repo)
       /\ Len(requests) = PageCountFor(totalIssues)
       /\ \A i \in 1..Len(requests) : requests[i] = i
  /\ (FetchReturned /\ ~FetchFailure) =>
       \* every returned entry is an entry of the listing (the listing's k-th entry
       \* has number k) and is no pull request
       /\ \A k \in 1..Len(allIssues) :
            /\ allIssues[k].number \in 1..Len(repo)
            /\ repo[allIssues[k].number] = allIssues[k]
            /\ ~allIssues[k].pull_request
       \* none is returned twice
       /\ \A k \in 1..(Len(allIssues) - 1) : allIssues[k].number < allIssues[k + 1].number
       \* none is dropped
       /\ Len(allIssues)
            = Len(repo) - Cardinality({ i \in 1..Len(repo) : repo[i].pull_request })

\* a listing one entry longer than MaxPages pages, fetched with one more request, whose
\* last page holds one issue
C7_Witness ==
  /\ FetchReturned /\ ~FetchFailure
  /\ Len(repo) = MaxPages * issuesPerPage + 1
  /\ Len(requests) = MaxPages + 1
  /\ pageResult[MaxPages + 1] = << repo[Len(repo)] >>
  /\ allIssues[Len(allIssues)] = repo[Len(repo)]
  /\ \E i \in 1..Len(repo) : repo[i].pull_request

\* ---------------------------------------------------------------------- C8

Line(message, n) == [level |-> "log", msg |-> message, n |-> n]

(* C8: when the metadata query or any page request has failed, whatever the
   other pages returned and whenever they arrive, the fetcher has returned the
   empty sequence (no error, no partial list), the run issues no createComment
   and no update call, does not raise, and ends having logged the fetch error
   and then, when showLogs is on, only that no issues were found. *)
C8_FetchFailureMeansNoIssues ==
  FetchFailure =>
    /\ FetchReturned
    /\ pc \in {"fetched", "done"}
    /\ allIssues = << >>
    /\ staleIssues = << >>
    /\ calls = << >>
    /\ ~raised
    /\ Done => log = << [level |-> "error", msg |-> "Error while fetching issues", n |-> 0] >>
                     \o (IF opts.showLogs THEN << Line("No issues found", 0) >> ELSE << >>)

\* a page failed while another page had returned issues and one was still in flight; the
\* run ended reporting no issues
C8_Witness ==
  /\ Done
  /\ PageFailed
  /\ \E page \in DOMAIN pageResult : pageResult[page] # << >>
  /\ pending # {}
  /\ calls = << >>
  /\ log[Len(log)] = Line("No issues found", 0)

\* ---------------------------------------------------------------------- C9

\* what a finished run has logged last
ExpectedReport ==
  IF ~opts.showLogs THEN << >>
  ELSE IF allIssues = << >> THEN << Line("No issues found", 0) >>
  ELSE (IF markedStale > 0 THEN << Line("Issues marked as stale", markedStale) >> ELSE << >>)
       \o (IF closed > 0 THEN << Line("Issues closed down", closed) >> ELSE << >>)
       \o (IF markedStale = 0 /\ closed = 0 THEN << Line("No old issues found", 0) >> ELSE << >>)

OutcomeLogged ==
  /\ Len(log) >= Len(ExpectedReport)
  /\ SubSeq(log, Len(log) - Len(ExpectedReport) + 1, Len(log)) = ExpectedReport

(* C9: provided every tracker call eventually returns or fails, the run always
   completes; no error ever propagates out of it, whichever fetch, comment and
   update calls fail; on completion it has logged its outcome (the nonzero
   counters markedStale and closed, or that nothing was to do). *)
C9_RunAlwaysCompletes ==
  /\ [](~raised /\ (Done => OutcomeLogged))
  /\ <>Done

\* a finished run in which every candidate failed, one at its comment and one at its update
C9_Witness ==
  /\ Done /\ ~raised
  /\ Len(staleIssues) = 2
  /\ \E j \in Comments : calls[j].result = "failed"
  /\ \E j \in Updates : calls[j].result = "failed"
  /\ markedStale = 0 /\ closed = 0
  /\ OutcomeLogged

\* --------------------------------------------------------------------- C10

\* the template an input names: its value, or the built-in template when not supplied
CloseCommentOption == OrDefault(inputs.closeComment, closeCommentDefault)
StaleCommentOption == OrDefault(inputs.staleComment, staleCommentDefault)

(* C10: the comment posted for an issue that is being closed is rendered from
   the closeComment input (the built-in close template when it is not
   supplied), the comment posted for an issue that is being marked stale from
   the staleComment input (the built-in stale template when not supplied). *)
C10_CommentFromItsOwnOption ==
  \A j \in Comments :
    LET n == calls[j].p.issue_number
        d == DecisionOf(n)
    IN  calls[j].p.body =
          GenerateMessage(FetchedIssue(n),
                          IF d.closing THEN CloseCommentOption ELSE StaleCommentOption,
                          d.clock)

\* ---------------------------------------------------------------- C11

\* the position of issue n among the candidates
CandidateIndex(n) ==
  CHOOSE k \in 1..Len(staleIssues) : staleIssues[k].number = n

InFlight == { j \in 1..Len(calls) : calls[j].result = "pending" }

\* C11: the candidates are processed strictly one after the other: a write call is only
\* issued once every earlier write call has been answered, the calls follow the order of
\* the candidates, and the only call that can be in flight is one of the candidate the
\* loop is at; so write calls of two issues are never in flight together.
C11_OneIssueAtATime ==
  /\ \A j \in 1..(Len(calls) - 1) : calls[j].result # "pending"
  /\ Cardinality(InFlight) <= 1
  /\ \A j \in InFlight :
       /\ pc \in {"awaitComment", "awaitUpdate"}
       /\ calls[j].p.issue_number = staleIssues[idx].number
  /\ \A i \in 1..Len(calls) : \A j \in i..Len(calls) :
       CandidateIndex(calls[i].p.issue_number) <= CandidateIndex(calls[j].p.issue_number)

\* the second candidate's update is in flight after both calls of the first were answered
C11_Witness ==
  /\ Len(calls) = 4
  /\ calls[1].p.issue_number = calls[2].p.issue_number
  /\ calls[3].p.issue_number # calls[1].p.issue_number
  /\ calls[4].p.op = "update"
  /\ InFlight = {4}

\* ---------------------------------------------------------------- C12

\* C12: every page's listing request is launched before any page's response is taken:
\* from the moment the metadata has returned, each page 1..ceiling(N/100) is either in
\* flight or has arrived.  When no request failed, the fetcher returns the pages'
\* filtered results concatenated in page-number order, in whatever order the responses
\* arrived.  No createComment or update call is issued before every page's response
\* has arrived.
C12_PagesInPageOrder ==
  /\ totalIssues >= 0 =>
       /\ Range(requests) = 1..PageCountFor(totalIssues)
       /\ pending \cup Range(arrived) = Range(requests)
       /\ pending \cap Range(arrived) = {}
  /\ (FetchReturned /\ ~FetchFailure) =>
       /\ Len(arrived) = Len(requests)
       /\ allIssues = Flatten([page \in 1..Len(requests) |->
                                 SelectSeq(ListForRepo(page, issuesPerPage), IsIssue)])
  /\ calls # << >> =>
       /\ pending = {}
       /\ Len(arrived) = PageCountFor(totalIssues)

\* the last page's response arrived first, the first page's last; the issue of the last
\* page was then written to
C12_Witness ==
  /\ Len(requests) = MaxPages + 1
  /\ Len(arrived) = Len(requests)
  /\ arrived[1] = Len(requests)
  /\ arrived[Len(arrived)] = 1
  /\ FetchReturned /\ ~FetchFailure
  /\ \A page \in 1..Len(requests) : pageResult[page] # << >>
  /\ allIssues[1] = repo[1]
  /\ calls # << >>

\* ---------------------------------------------------------------- C13

\* both steps of the k-th processed candidate reported success (in a dry run they always do)
Succeeded(k) ==
  dryRun \/ (CommentedOk(decisions[k].number) /\ TransitionedOk(decisions[k].number))

CountersAccount ==
  /\ Len(decisions) <= Len(staleIssues)
  /\ closed = Cardinality({ k \in 1..Len(decisions) : decisions[k].closing /\ Succeeded(k) })
  /\ markedStale = Cardinality({ k \in 1..Len(decisions) : ~decisions[k].closing /\ Succeeded(k) })
  /\ markedStale + closed <= Len(decisions)
  /\ \A k \in 1..Len(decisions) :
       (\E j \in CallsFor(decisions[k].number) \cap Updates : calls[j].result = "failed")
         => ~Succeeded(k)

CountersStep ==
  /\ closed' >= closed
  /\ markedStale' >= markedStale
  /\ (closed' - closed) + (markedStale' - markedStale) <= 1
  /\ (closed' + markedStale' > closed + markedStale) =>
       \/ dryRun /\ Len(decisions') = Len(decisions) + 1
       \/ ~dryRun /\ pc = "awaitUpdate" /\ calls'[Len(calls)].result = "ok"

\* C13: at every point of a run, closed is the number of processed candidates decided as
\* closing whose comment and update both succeeded, and markedStale the same for the
\* candidates decided as stale; a step raises at most one counter, by one, and only for
\* the candidate just completed; the counters never decrease, their sum never exceeds
\* the number of candidates, and a candidate whose update failed is in neither.
C13_CountersCountSuccesses == []CountersAccount /\ [][CountersStep]_vars

\* the first candidate's update failed and the second was closed: one candidate counted
C13_Witness ==
  /\ Done /\ ~dryRun
  /\ Len(decisions) = 2
  /\ Len(calls) = 4
  /\ calls[2].p.op = "update" /\ calls[2].result = "failed"
  /\ calls[4].result = "ok"
  /\ closed = 1 /\ markedStale = 0

\* ---------------------------------------------------------------- C14

\* C14: the update of a candidate decided as stale sends as labels the labels the issue
\* was fetched with followed by the stale label (once more if it was already attached)
\* and sends no state, so the issue stays open; the update of a candidate decided as
\* closing sends state 'closed' and no labels, so the labels stay as they are; an issue
\* gets no second update in the run.
C14_UpdateSendsLabelsOrState ==
  \A j \in Updates :
    LET n == calls[j].p.issue_number
        issue == FetchedIssue(n)
    IN  /\ CallsFor(n) \cap Updates = {j}
        /\ IF DecisionOf(n).closing
           THEN /\ calls[j].p.hasState
                /\ calls[j].p.state = "closed"
                /\ ~calls[j].p.hasLabels
                /\ calls[j].p.labels = << >>
           ELSE /\ calls[j].p.hasLabels
                /\ calls[j].p.labels = issue.labels \o << opts.staleLabel >>
                /\ Len(calls[j].p.labels) = Len(issue.labels) + 1
                /\ ~calls[j].p.hasState
                /\ calls[j].p.state # "closed"

\* an issue fetched with the stale label was marked stale: the label was sent twice
C14_Witness ==
  \E j \in Updates :
    /\ calls[j].result = "ok"
    /\ FetchedIssue(calls[j].p.issue_number).labels = << opts.staleLabel >>
    /\ calls[j].p.labels = << opts.staleLabel, opts.staleLabel >>
    /\ ~calls[j].p.hasState

\* ---------------------------------------------------------------- C15

Max(S) == CHOOSE x \in S : \A y \in S : y <= x

\* C15: within a run a candidate gets at most one createComment call and at most one
\* update call; once a call for an issue has failed, no further call is made for that
\* issue and the loop has moved past it; the candidates after it are still processed, so
\* a finished live run has made exactly one createComment call for every candidate.
C15_NoRetry ==
  /\ \A k \in 1..Len(staleIssues) :
       LET n == staleIssues[k].number
       IN  /\ Cardinality(CallsFor(n) \cap Comments) <= 1
           /\ Cardinality(CallsFor(n) \cap Updates) <= 1
  /\ \A j \in 1..Len(calls) :
       calls[j].result = "failed" =>
         /\ j = Max(CallsFor(calls[j].p.issue_number))
         /\ idx > CandidateIndex(calls[j].p.issue_number)
  /\ (Done /\ ~dryRun /\ ~raised) =>
       \A k \in 1..Len(staleIssues) :
         Cardinality(CallsFor(staleIssues[k].number) \cap Comments) = 1

\* the first candidate's update failed; the second candidate was then tried, and its
\* comment failed; neither call was repeated
C15_Witness ==
  /\ Done /\ ~dryRun
  /\ Len(staleIssues) = 2
  /\ Len(calls) = 3
  /\ calls[2].p.op = "update" /\ calls[2].result = "failed"
  /\ calls[3].p.op = "createComment" /\ calls[3].result = "failed"
  /\ calls[3].p.issue_number = staleIssues[2].number

\* ---------------------------------------------------------------- C16

\* the run on every template
RenderSpec == InitTemplates /\ [][Next]_vars

\* piece i of template t is the first occurrence of token tok in t
FirstOccurrence(t, i, tok) == t[i] = tok /\ \A k \in 1..(i - 1) : t[k] # tok

\* d is the age (in clock units) in days, rounded to the nearest integer, halves up
RoundedDays(d, age) ==
  /\ d >= 0
  /\ 2 * d * oneDay <= 2 * age + oneDay
  /\ 2 * age + oneDay < 2 * (d + 1) * oneDay

\* C16: the comment posted for a candidate is its template, piece by piece, with the
\* first %DAYS_OLD% token replaced by the issue's age in days rounded to the nearest
\* integer and the first %AUTHOR% token replaced by the author's handle; every later
\* occurrence of a token and every literal piece is left as it is.  So the message is
\* determined by the template, the age and the author.
C16_FirstOccurrenceReplaced ==
  \A j \in Comments :
    LET n == calls[j].p.issue_number
        issue == FetchedIssue(n)
        t == CommentTemplate(DecisionOf(n).closing)
        age == DecisionOf(n).clock - issue.updated_at
        body == calls[j].p.body
    IN  /\ Len(body) = Len(t)
        /\ \A i \in 1..Len(t) :
             IF FirstOccurrence(t, i, DAYS_OLD)
             THEN body[i].kind = "num" /\ RoundedDays(body[i].n, age)
             ELSE IF FirstOccurrence(t, i, AUTHOR)
             THEN body[i] = Lit(issue.user)
             ELSE body[i] = t[i]

\* a template with each token twice: the second occurrences are in the posted comment
C16_Witness ==
  \E j \in Comments :
    /\ opts.staleComment = << DAYS_OLD, AUTHOR, DAYS_OLD, AUTHOR >>
    /\ calls[j].p.body = << Num(2), Lit(FetchedIssue(calls[j].p.issue_number).user),
                            DAYS_OLD, AUTHOR >>
    /\ calls[j].result = "ok"

\* ------------------------------------------------- one run after another

\* the write calls for issue n that the tracker carried out
Applied(n) == { j \in CallsFor(n) : calls[j].result = "ok" }

ClosedByRun(n) ==
  \E j \in Applied(n) : calls[j].p.hasState /\ calls[j].p.state = "closed"

\* the labels of a list, each once, in the order of their first occurrence
Distinct(labels) ==
  SelectSeq([i \in 1..Len(labels) |->
               IF \A k \in 1..(i - 1) : labels[k] # labels[i] THEN << labels[i] >> ELSE << >>],
            LAMBDA l : l # << >>)

\* an entry of the listing as the tracker holds it after the run: a comment or an update
\* of this run sets updated_at to its time, an update with labels replaces the labels
\* (an issue carries a label once, however often it was sent)
EntryAfterRun(e) ==
  IF Applied(e.number) = {} THEN e
  ELSE LET last == Max(Applied(e.number))
       IN  [e EXCEPT !.updated_at = calls[last].at,
                     !.labels = IF calls[last].p.hasLabels
                                THEN Flatten(Distinct(calls[last].p.labels))
                                ELSE e.labels]

\* e put into a listing sorted by last update, most recent first
InsertByUpdate(e, s) ==
  LET k == Cardinality({ i \in 1..Len(s) : s[i].updated_at > e.updated_at })
  IN  SubSeq(s, 1, k) \o << e >> \o SubSeq(s, k + 1, Len(s))

RECURSIVE SortedByUpdate(_)
SortedByUpdate(s) ==
  IF s = << >> THEN << >> ELSE InsertByUpdate(Head(s), SortedByUpdate(Tail(s)))

\* the open listing the next run meets, `after` clock units after this run started: closed
\* issues are gone, and times are counted from the start of the next run
ListingAfterRun(after) ==
  LET kept == SelectSeq(repo, LAMBDA e : ~ClosedByRun(e.number))
  IN  SortedByUpdate([k \in 1..Len(kept) |->
        [EntryAfterRun(kept[k]) EXCEPT !.updated_at = @ - after]])

\* the run is over; the next run starts one period after this one started
Rerun ==
  /\ pc = "done"
  /\ now <= period
  /\ repo' = ListingAfterRun(period)
  /\ touched' = { calls[j].p.issue_number : j \in { i \in Comments : calls[i].result = "ok" } }
  /\ again' = TRUE
  /\ now' = 0
  /\ ticks' = 0
  /\ pc' = "start"
  /\ totalIssues' = -1
  /\ requests' = << >>
  /\ pending' = {}
  /\ pageResult' = << >>
  /\ arrived' = << >>
  /\ allIssues' = << >>
  /\ staleIssues' = << >>
  /\ idx' = 0
  /\ isClosingDown' = FALSE
  /\ decisions' = << >>
  /\ filterClock' = 0
  /\ markedStale' = 0
  /\ closed' = 0
  /\ calls' = << >>
  /\ log' = << >>
  /\ raised' = FALSE
  /\ UNCHANGED << inputs, opts, dryRun, period, changes >>

\* a workflow that runs the action again and again: staleAfter 1, closeAfter 2, one or
\* two open issues, every period
Periods == MaxTicks..MaxPeriod

InitRepeat ==
  /\ inputs = [ staleAfter |-> << 1 >>, closeAfter |-> << 2 >>,
                staleComment |-> << >>, closeComment |-> << >>,
                staleLabel |-> << >>, showLogs |-> << >> ]
  /\ dryRun = FALSE
  /\ \E m \in 1..2 : \E free \in IssueSeqs(m) : repo = Listing(m, free)
  /\ period \in Periods
  /\ InitFirstRun

\* ---------------------------------------------------------------- C17

\* the tracker's answers when every call succeeds
TrackerSucceeds ==
  \/ ReposGetReturns
  \/ \E page \in pending : PageReturns(page)
  \/ CommentReturns
  \/ UpdateReturns

SucceedNext == ProgramStep \/ TrackerSucceeds \/ Tick \/ Rerun

\* runs repeated for ever, every tracker call succeeding, nobody else touching the issues
SucceedSpec == InitRepeat /\ [][SucceedNext]_vars
FairSucceedSpec ==
  SucceedSpec /\ WF_vars(ProgramStep) /\ WF_vars(TrackerSucceeds) /\ WF_vars(Rerun)

\* every issue of the listing has been closed
AllClosed == \A k \in 1..Len(repo) : ClosedByRun(repo[k].number)

\* C17: with closeAfter > staleAfter, every tracker call succeeding and updated_at set
\* to the time of this system's comments and updates, the open issues, which nobody
\* else touches, are all closed by some run, whatever the period of the runs.
C17_EveryIssueEventuallyClosed == <>AllClosed

\* ---------------------------------------------------------------- C18

RunTick == TickUpTo(MaxRunTicks)
\* the first run is followed by a second
NextRun == ~again /\ Rerun

RepeatNext == ProgramStep \/ TrackerResponds \/ RunTick \/ NextRun

\* two runs, one period apart, calls failing or succeeding
RepeatSpec == InitRepeat /\ [][RepeatNext]_vars

\* this run follows another one; `touched` are the issues that one commented on
FollowsARun == again

\* C18 (amended): when the staleness filter of a run is evaluated no later than staleAfter
\* days after the previous run started, the run makes no createComment and no update
\* call for an issue the previous run commented on, whether that run's update of the
\* issue succeeded or failed.
C18_NoCallWhenFilteredWithinStaleAfter ==
  (FollowsARun /\ period + filterClock <= opts.staleAfter * oneDay) =>
    \A n \in touched : CallsFor(n) = {}

\* C18 (as stated): a run started less than staleAfter days after the previous run
\* started makes no createComment and no update call for an issue the previous run
\* commented on.
C18_NoCallWhenStartedWithinStaleAfter ==
  (FollowsARun /\ period < opts.staleAfter * oneDay) =>
    \A n \in touched : CallsFor(n) = {}

\* the second run is over; it fetched an issue the first run commented on but could not
\* label, and left it alone while it wrote to another issue
C18_Witness ==
  /\ FollowsARun /\ Done
  /\ period + filterClock <= opts.staleAfter * oneDay
  /\ calls # << >>
  /\ \E k \in 1..Len(allIssues) :
       /\ allIssues[k].number \in touched
       /\ allIssues[k].labels = << >>
       /\ CallsFor(allIssues[k].number) = {}

\* ---------------------------------------------------------------- C19

\* the listing changes while the page requests of the fetch are in flight: somebody
\* updates, opens or closes an issue.  A page's response shows the listing as it is when
\* the tracker answers.
Meanwhile ==
  /\ pc = "awaitPages"
  /\ pending # {}
  /\ changes < MaxChanges
  /\ changes' = changes + 1
  /\ UNCHANGED << inputs, opts, dryRun, now, ticks, period, again, touched, pc,
                  fetchVars, triageVars, log, raised >>

\* the entries somebody acts on: the ends of the listing and the entries at a page boundary
Positions == { 1, issuesPerPage, issuesPerPage + 1, Len(repo) } \cap (1..Len(repo))

Without(k) == SubSeq(repo, 1, k - 1) \o SubSeq(repo, k + 1, Len(repo))

\* somebody comments on entry k: it becomes the most recently updated one
IssueUpdatedMeanwhile ==
  /\ Meanwhile
  /\ \E k \in Positions : repo' = << [repo[k] EXCEPT !.updated_at = now] >> \o Without(k)

\* somebody opens an issue
IssueOpenedMeanwhile ==
  /\ Meanwhile
  /\ repo' = << [number |-> 1 + Max({ repo[k].number : k \in 1..Len(repo) } \cup {0}),
                 pull_request |-> FALSE, updated_at |-> now, user |-> "dave",
                 labels |-> << >>] >> \o repo

\* somebody closes entry k: it leaves the open listing
IssueClosedMeanwhile ==
  /\ Meanwhile
  /\ \E k \in Positions : repo' = Without(k)

ShiftNext == Next \/ IssueUpdatedMeanwhile \/ IssueOpenedMeanwhile \/ IssueClosedMeanwhile

\* a listing of two pages whose last two entries are old issues
InitShift ==
  /\ inputs = [ staleAfter |-> << 1 >>, closeAfter |-> << 2 >>,
                staleComment |-> << >>, closeComment |-> << >>,
                staleLabel |-> << >>, showLogs |-> << >> ]
  /\ dryRun = FALSE
  /\ \E free \in IssueSeqs(2) : repo = Listing(issuesPerPage + 1, free)
  /\ InitRun

\* one run, the listing changing under its fetch
ShiftSpec == InitShift /\ [][ShiftNext]_vars

\* C19: even when issues are updated, opened or closed while the page requests are in
\* flight, the fetched sequence holds each issue number at most once, and no issue gets
\* more than one createComment call or more than one update call in the run.
C19_NoIssueTwice ==
  /\ Cardinality({ allIssues[k].number : k \in 1..Len(allIssues) }) = Len(allIssues)
  /\ \A j \in 1..Len(calls) :
       /\ Cardinality(CallsFor(calls[j].p.issue_number) \cap Comments) <= 1
       /\ Cardinality(CallsFor(calls[j].p.issue_number) \cap Updates) <= 1

====
